---- MODULE Spec2Model ----
(***************************************************************************)
(* Explicit finite-difference integration of the 1-D wave equation on a    *)
(* string with fixed ends (src/main.rs): simulate_single_r,                *)
(* simulate_interface and the wave-packet main.                            *)
(*                                                                         *)
(* Number representation.  The program computes in f64.  Here a            *)
(* displacement is an integer count of 1/SCALE metres, a Courant number is *)
(* an integer count of 1/QR, and a squared Courant number an integer count *)
(* of 1/RSQ_ONE.  A product of a coefficient and a displacement is rounded *)
(* to the nearest unit (FMul), as every f64 product is rounded; sums and   *)
(* differences of displacements are exact.  exp() is evaluated ahead of    *)
(* time: the tables below hold the initial profiles, node by node, rounded *)
(* up to the next unit, so that a sample that is tiny but positive in f64  *)
(* stays positive here.                                                    *)
(***************************************************************************)
EXTENDS Integers, Sequences, FiniteSets, TLC

VARIABLES
  prog,         \* which entry point runs: "single", "interface", "packet", "rule"
  pc,           \* position in that entry point
  r,            \* simulate_single_r: argument r
  r_values,     \* simulate_interface: argument r_values
  num_steps,    \* argument num_steps
  run,          \* simulate_interface: index of the current entry of r_values
  step,         \* loop variable of the time loop
  y_prev_prev,  \* displacement at time level n-1
  y_prev,       \* displacement at time level n
  y_curr,       \* displacement at time level n+1
  results,      \* frames recorded by the current run
  all_results,  \* simulate_interface: one frame series per finished run
  writes,       \* the node writes of the last time step, in order: <<node, rule>>
  u_prev,       \* wave packet: buffer bound to u_prev
  u_curr,       \* wave packet: buffer bound to u_curr
  u_next,       \* wave packet: buffer bound to u_next
  frames        \* wave packet: recorded frames

vars == <<prog, pc, r, r_values, num_steps, run, step, y_prev_prev, y_prev,
          y_curr, results, all_results, writes, u_prev, u_curr, u_next, frames>>

----------------------------------------------------------------------------
(* Bounds of the model *)

MaxSteps == 6          \* num_steps ranges over 0..MaxSteps
MaxRuns == 2           \* r_values has at most MaxRuns entries
StabilitySteps == 150  \* num_steps of the long runs of SpecEnergy

----------------------------------------------------------------------------
(* Fixed-point representation of f64 *)

SCALE == 16384              \* displacement units per metre
QR == 20                    \* Courant-number units per 1.0
RSQ_ONE == QR * QR          \* 1.0 as a squared Courant number

\* n / d rounded to the nearest integer (d > 0)
Round(n, d) == (2 * n + d) \div (2 * d)

\* f64 product of a coefficient (in 1/RSQ_ONE) and a displacement
FMul(c, y) == Round(c * y, RSQ_ONE)

\* x / 2.0
Half(x) == Round(x, 2)

\* r.powi(2)
Powi2(x) == x * x

----------------------------------------------------------------------------
(* Grid and initial profiles *)

NUM_NODES == 101       \* (L / DX) as usize + 1
INTERFACE_I == 50
C1 == 300
C2 == 150
N == 150
T_STEPS == 200
R == 16                \* 0.8

\* amplitude * exp(-(x - center)^2 / (2 sigma^2)) at x = i * DX, i = 0..100,
\* center = 0.2, sigma = 0.05, amplitude = 0.5
GaussianSingle ==
  << 3, 6, 13, 26, 49, 92, 163, 279, 460, 729,
     1109, 1622, 2278, 3075, 3988, 4969, 5949, 6843, 7563, 8030,
     8192, 8030, 7563, 6843, 5949, 4969, 3988, 3075, 2278, 1622,
     1109, 729, 460, 279, 163, 92, 49, 26, 13, 6,
     3, 2, 1, 1, 1, 1, 1, 1, 1, 1,
     1, 1, 1, 1, 1, 1, 1, 1, 1, 1,
     1, 1, 1, 1, 1, 1, 1, 1, 1, 1,
     1, 1, 1, 1, 1, 1, 1, 1, 1, 1,
     1, 1, 1, 1, 1, 1, 1, 1, 1, 1,
     1, 1, 1, 1, 1, 1, 1, 1, 1, 1,
     1 >>

\* the same profile with center = 0.1
GaussianInterface ==
  << 1109, 1622, 2278, 3075, 3988, 4969, 5949, 6843, 7563, 8030,
     8192, 8030, 7563, 6843, 5949, 4969, 3988, 3075, 2278, 1622,
     1109, 729, 460, 279, 163, 92, 49, 26, 13, 6,
     3, 2, 1, 1, 1, 1, 1, 1, 1, 1,
     1, 1, 1, 1, 1, 1, 1, 1, 1, 1,
     1, 1, 1, 1, 1, 1, 1, 1, 1, 1,
     1, 1, 1, 1, 1, 1, 1, 1, 1, 1,
     1, 1, 1, 1, 1, 1, 1, 1, 1, 1,
     1, 1, 1, 1, 1, 1, 1, 1, 1, 1,
     1, 1, 1, 1, 1, 1, 1, 1, 1, 1,
     1 >>

\* u0 = A * exp(-(x - X0)^2 / SIGMA^2) at x = i * dx, i = 0..149
PacketU0 ==
  << 32, 45, 61, 84, 113, 152, 202, 266, 348, 451,
     578, 736, 928, 1159, 1436, 1762, 2144, 2584, 3087, 3655,
     4289, 4988, 5748, 6565, 7430, 8335, 9265, 10207, 11145, 12059,
     12930, 13741, 14472, 15104, 15623, 16015, 16270, 16380, 16343, 16160,
     15836, 15379, 14801, 14118, 13345, 12501, 11606, 10678, 9736, 8798,
     7879, 6992, 6150, 5360, 4631, 3964, 3363, 2828, 2356, 1946,
     1593, 1292, 1038, 827, 653, 511, 396, 305, 232, 175,
     131, 97, 72, 52, 38, 27, 19, 14, 10, 7,
     5, 3, 2, 2, 1, 1, 1, 1, 1, 1,
     1, 1, 1, 1, 1, 1, 1, 1, 1, 1,
     1, 1, 1, 1, 1, 1, 1, 1, 1, 1,
     1, 1, 1, 1, 1, 1, 1, 1, 1, 1,
     1, 1, 1, 1, 1, 1, 1, 1, 1, 1,
     1, 1, 1, 1, 1, 1, 1, 1, 1, 1,
     1, 1, 1, 1, 1, 1, 1, 1, 1, 1 >>

\* u0 - dt * v0 with v0 = -C * du_dx, du_dx = u0 * (-2 (x - X0)) / SIGMA^2
PacketUPrev ==
  << 41, 56, 77, 104, 140, 187, 247, 324, 421, 542,
     692, 875, 1097, 1362, 1676, 2045, 2472, 2961, 3516, 4136,
     4822, 5572, 6380, 7239, 8140, 9071, 10017, 10961, 11887, 12775,
     13606, 14360, 15019, 15567, 15989, 16275, 16416, 16409, 16255, 15956,
     15522, 14963, 14295, 13533, 12696, 11803, 10874, 9927, 8982, 8053,
     7155, 6299, 5496, 4752, 4072, 3457, 2909, 2425, 2004, 1641,
     1332, 1071, 853, 674, 527, 409, 314, 239, 181, 135,
     100, 74, 54, 39, 28, 20, 14, 10, 7, 5,
     4, 3, 2, 1, 1, 1, 1, 1, 1, 1,
     1, 1, 1, 1, 1, 1, 1, 1, 1, 1,
     1, 1, 1, 1, 1, 1, 1, 1, 1, 1,
     1, 1, 1, 1, 1, 1, 1, 1, 1, 1,
     1, 1, 1, 1, 1, 1, 1, 1, 1, 1,
     1, 1, 1, 1, 1, 1, 1, 1, 1, 1,
     1, 1, 1, 1, 1, 1, 1, 1, 1, 1 >>

----------------------------------------------------------------------------
(* Buffers *)

\* vec![0.0; n]
Zeros(n) == [i \in 0..(n - 1) |-> 0]

\* a profile table as a buffer indexed from 0
FromTable(t) == [i \in 0..(Len(t) - 1) |-> t[i + 1]]

\* dst.copy_from_slice(&src): dst afterwards
CopyFromSliceDropped(dst, src) == dst
CopyFromSlice(dst, src) == src

\* the rotation at the end of a time step: y_prev_prev afterwards
RotatePrevPrevFromCurr(yp, yc) == yc
RotatePrevPrev(yp, yc) == yp

\* std::mem::swap(&mut a, &mut b): <<a, b>> afterwards
Swap(a, b) == <<b, a>>

\* first value of the time loop `for _ in 2..num_steps`
LoopStartOne == 2 - 1
LoopStart == 2

\* the Vec a run of simulate_interface collects its frames in
NewRunResultsKept(old) == old
NewRunResults(old) == << >>

----------------------------------------------------------------------------
(* Update rules *)

\* the three-level centred stencil at interior node i
StencilPlusPrevPrev(rsq, yp, ypp, i) ==
  FMul(2 * (RSQ_ONE - rsq), yp[i]) + ypp[i] + FMul(rsq, yp[i + 1] + yp[i - 1])
Stencil(rsq, yp, ypp, i) ==
  FMul(2 * (RSQ_ONE - rsq), yp[i]) - ypp[i] + FMul(rsq, yp[i + 1] + yp[i - 1])

\* the update of the interface node
InterfaceRule(r1sq, r2sq, yp, ypp, i) ==
  FMul(2 * (RSQ_ONE - Half(r1sq + r2sq)), yp[i]) - ypp[i]
    + Half(FMul(r1sq, yp[i - 1]) + FMul(r2sq, yp[i + 1]))

\* r2 = (C2 * dt) / DX with dt = r1 * DX / C1
R2Of(r1) == (C2 * r1) \div C1

\* y_curr[0] = 0.0; y_curr[NUM_NODES - 1] = 0.0
FixEnds(y) == [y EXCEPT ![0] = 0, ![NUM_NODES - 1] = 0]

\* for i in lo..hi { y[i] = stencil }, with the log of its writes; the
\* stencil reads yp and ypp only, which the loop does not write
StencilLoop(acc, rule, rsq, yp, ypp, lo, hi) ==
  [y   |-> [i \in DOMAIN acc.y |->
              IF lo <= i /\ i < hi THEN Stencil(rsq, yp, ypp, i) ELSE acc.y[i]],
   log |-> acc.log \o [j \in 1..(IF hi > lo THEN hi - lo ELSE 0) |->
                         <<lo + j - 1, rule>>]]

\* body of the time loop of simulate_single_r, up to the push
SingleStepField(rsq, yc, yp, ypp) ==
  StencilLoop([y |-> FixEnds(yc), log |-> << >>], "r", rsq, yp, ypp,
              1, NUM_NODES - 1)

\* bounds of the two region loops of simulate_interface
LeftLo == 1
LeftHi == INTERFACE_I
RightLoAtInterface == INTERFACE_I
RightLo == INTERFACE_I + 1
RightHi == NUM_NODES - 1

\* body of the time loop of simulate_interface, up to the push
InterfaceStepField(r1sq, r2sq, yc, yp, ypp) ==
  LET ends  == [y |-> FixEnds(yc), log |-> << >>]
      left  == StencilLoop(ends, "r1", r1sq, yp, ypp, LeftLo, LeftHi)
      right == StencilLoop(left, "r2", r2sq, yp, ypp, RightLo, RightHi)
  IN  [y   |-> [right.y EXCEPT ![INTERFACE_I] =
                   InterfaceRule(r1sq, r2sq, yp, ypp, INTERFACE_I)],
       log |-> Append(right.log, <<INTERFACE_I, "interface">>)]

\* for i in 1..N-1 { u_next[i] = stencil } of the wave packet
PacketLoop(un, uc, up) ==
  [i \in DOMAIN un |->
     IF 1 <= i /\ i < N - 1 THEN Stencil(Powi2(R), uc, up, i) ELSE un[i]]

\* body of the time loop of the wave packet, up to the push
PacketStepFieldFixedEnds(un, uc, up) ==
  PacketLoop([un EXCEPT ![0] = 0, ![N - 1] = 0], uc, up)
PacketStepField(un, uc, up) == PacketLoop(un, uc, up)

----------------------------------------------------------------------------
(* Inputs *)

\* Courant numbers in 1/QR: 0, 0.6, 0.8, 1.0, 1.2
RValues == {0, 12, 16, 20, 24}
\* the Courant numbers simulate_interface is run with
RInterface == {12, 16, 20}

RECURSIVE SeqsUpTo(_, _)
SeqsUpTo(S, n) ==
  IF n = 0 THEN {<< >>}
  ELSE LET shorter == SeqsUpTo(S, n - 1)
       IN  shorter \cup {Append(s, x) : s \in shorter, x \in S}

Idle ==
  /\ pc = "start"
  /\ run = 0 /\ step = 0
  /\ y_prev_prev = Zeros(NUM_NODES) /\ y_prev = Zeros(NUM_NODES)
  /\ y_curr = Zeros(NUM_NODES)
  /\ results = << >> /\ all_results = << >> /\ writes = << >>
  /\ u_prev = Zeros(N) /\ u_curr = Zeros(N) /\ u_next = Zeros(N)
  /\ frames = << >>

Init ==
  /\ Idle
  /\ \/ prog = "single" /\ r \in RValues /\ r_values = << >>
        /\ num_steps \in 0..MaxSteps
     \/ prog = "interface" /\ r = 0 /\ r_values \in SeqsUpTo(RInterface, MaxRuns)
        /\ num_steps \in 0..MaxSteps
     \/ prog = "packet" /\ r = 0 /\ r_values = << >> /\ num_steps = 0

----------------------------------------------------------------------------
(* simulate_single_r *)

SingleBegin ==
  /\ prog = "single" /\ pc = "start"
  /\ LET ypp == FromTable(GaussianSingle)
         yp  == CopyFromSlice(Zeros(NUM_NODES), ypp)
     IN  /\ y_prev_prev' = ypp
         /\ y_prev' = yp
         /\ results' = <<ypp, yp>>
  /\ step' = LoopStart
  /\ pc' = "loop"
  /\ UNCHANGED <<prog, r, r_values, num_steps, run, y_curr, all_results,
                 writes, u_prev, u_curr, u_next, frames>>

SingleStep ==
  /\ prog = "single" /\ pc = "loop" /\ step < num_steps
  /\ LET out == SingleStepField(Powi2(r), y_curr, y_prev, y_prev_prev)
     IN  /\ y_curr' = out.y
         /\ writes' = out.log
         /\ results' = Append(results, out.y)
         /\ y_prev_prev' = CopyFromSlice(y_prev_prev, RotatePrevPrev(y_prev, out.y))
         /\ y_prev' = CopyFromSlice(y_prev, out.y)
  /\ step' = step + 1
  /\ UNCHANGED <<prog, pc, r, r_values, num_steps, run, all_results,
                 u_prev, u_curr, u_next, frames>>

SingleReturn ==
  /\ prog = "single" /\ pc = "loop" /\ ~(step < num_steps)
  /\ pc' = "done"
  /\ UNCHANGED <<prog, r, r_values, num_steps, run, step, y_prev_prev, y_prev,
                 y_curr, results, all_results, writes, u_prev, u_curr, u_next,
                 frames>>

NextSingle == SingleBegin \/ SingleStep \/ SingleReturn

----------------------------------------------------------------------------
(* simulate_interface *)

InterfaceEnter ==
  /\ prog = "interface" /\ pc = "start"
  /\ all_results' = << >>
  /\ run' = 1
  /\ pc' = "for_r"
  /\ UNCHANGED <<prog, r, r_values, num_steps, step, y_prev_prev, y_prev,
                 y_curr, results, writes, u_prev, u_curr, u_next, frames>>

InterfaceRunBegin ==
  /\ prog = "interface" /\ pc = "for_r" /\ run <= Len(r_values)
  /\ LET ypp == FromTable(GaussianInterface)
         yp  == CopyFromSlice(Zeros(NUM_NODES), ypp)
     IN  /\ y_prev_prev' = ypp
         /\ y_prev' = yp
         /\ y_curr' = Zeros(NUM_NODES)
         /\ results' = NewRunResults(results) \o <<ypp, yp>>
  /\ step' = LoopStart
  /\ pc' = "loop"
  /\ UNCHANGED <<prog, r, r_values, num_steps, run, all_results, writes,
                 u_prev, u_curr, u_next, frames>>

InterfaceStep ==
  /\ prog = "interface" /\ pc = "loop" /\ step < num_steps
  /\ LET r1  == r_values[run]
         out == InterfaceStepField(Powi2(r1), Powi2(R2Of(r1)),
                                   y_curr, y_prev, y_prev_prev)
     IN  /\ y_curr' = out.y
         /\ writes' = out.log
         /\ results' = Append(results, out.y)
         /\ y_prev_prev' = CopyFromSlice(y_prev_prev, RotatePrevPrev(y_prev, out.y))
         /\ y_prev' = CopyFromSlice(y_prev, out.y)
  /\ step' = step + 1
  /\ UNCHANGED <<prog, pc, r, r_values, num_steps, run, all_results,
                 u_prev, u_curr, u_next, frames>>

InterfaceRunEnd ==
  /\ prog = "interface" /\ pc = "loop" /\ ~(step < num_steps)
  /\ all_results' = Append(all_results, results)
  /\ run' = run + 1
  /\ pc' = "for_r"
  /\ UNCHANGED <<prog, r, r_values, num_steps, step, y_prev_prev, y_prev,
                 y_curr, results, writes, u_prev, u_curr, u_next, frames>>

InterfaceReturn ==
  /\ prog = "interface" /\ pc = "for_r" /\ ~(run <= Len(r_values))
  /\ pc' = "done"
  /\ UNCHANGED <<prog, r, r_values, num_steps, run, step, y_prev_prev, y_prev,
                 y_curr, results, all_results, writes, u_prev, u_curr, u_next,
                 frames>>

NextInterface ==
  \/ InterfaceEnter \/ InterfaceRunBegin \/ InterfaceStep
  \/ InterfaceRunEnd \/ InterfaceReturn

----------------------------------------------------------------------------
(* main of the wave packet *)

PacketBegin ==
  /\ prog = "packet" /\ pc = "start"
  /\ u_curr' = FromTable(PacketU0)
  /\ u_prev' = FromTable(PacketUPrev)
  /\ frames' = <<FromTable(PacketU0)>>
  /\ step' = 1
  /\ pc' = "loop"
  /\ UNCHANGED <<prog, r, r_values, num_steps, run, y_prev_prev, y_prev,
                 y_curr, results, all_results, writes, u_next>>

PacketStep ==
  /\ prog = "packet" /\ pc = "loop" /\ step < T_STEPS
  /\ LET nx == PacketStepField(u_next, u_curr, u_prev)
         s1 == Swap(u_prev, u_curr)     \* <<u_prev, u_curr>>
         s2 == Swap(s1[2], nx)          \* <<u_curr, u_next>>
     IN  /\ frames' = Append(frames, nx)
         /\ u_prev' = s1[1]
         /\ u_curr' = s2[1]
         /\ u_next' = s2[2]
  /\ step' = step + 1
  /\ UNCHANGED <<prog, pc, r, r_values, num_steps, run, y_prev_prev, y_prev,
                 y_curr, results, all_results, writes>>

PacketDone ==
  /\ prog = "packet" /\ pc = "loop" /\ ~(step < T_STEPS)
  /\ pc' = "done"
  /\ UNCHANGED <<prog, r, r_values, num_steps, run, step, y_prev_prev, y_prev,
                 y_curr, results, all_results, writes, u_prev, u_curr, u_next,
                 frames>>

NextPacket == PacketBegin \/ PacketStep \/ PacketDone

----------------------------------------------------------------------------
Next == NextSingle \/ NextInterface \/ NextPacket

Spec == Init /\ [][Next]_vars

\* the program is sequential and always takes its next step
FairSpec == Spec /\ WF_vars(Next)

----------------------------------------------------------------------------
(* Long homogeneous runs at stable Courant numbers *)

StableR == {x \in RValues : x <= QR}

InitEnergy ==
  /\ Idle
  /\ prog = "single" /\ r \in StableR /\ r_values = << >>
  /\ num_steps = StabilitySteps

SpecEnergy == InitEnergy /\ [][NextSingle]_vars

----------------------------------------------------------------------------
(* The interface update as a function of its operands *)

ProbeValues == {0, 800, 1600}

InitRule ==
  /\ prog = "rule" /\ pc = "start"
  /\ r = 0 /\ num_steps = 0 /\ run = 1 /\ step = 0
  /\ r_values \in {<<r1>> : r1 \in RInterface}
  /\ y_prev \in {[Zeros(NUM_NODES) EXCEPT ![INTERFACE_I - 1] = a,
                                           ![INTERFACE_I] = b,
                                           ![INTERFACE_I + 1] = c] :
                   a \in ProbeValues, b \in ProbeValues, c \in ProbeValues}
  /\ y_prev_prev \in {[Zeros(NUM_NODES) EXCEPT ![INTERFACE_I] = p] :
                        p \in ProbeValues}
  /\ y_curr = Zeros(NUM_NODES)
  /\ results = << >> /\ all_results = << >> /\ writes = << >>
  /\ u_prev = Zeros(N) /\ u_curr = Zeros(N) /\ u_next = Zeros(N)
  /\ frames = << >>

ApplyInterfaceRule ==
  /\ prog = "rule" /\ pc = "start"
  /\ LET r1 == r_values[run]
     IN  y_curr' = [y_curr EXCEPT ![INTERFACE_I] =
                      InterfaceRule(Powi2(r1), Powi2(R2Of(r1)),
                                    y_prev, y_prev_prev, INTERFACE_I)]
  /\ pc' = "done"
  /\ UNCHANGED <<prog, r, r_values, num_steps, run, step, y_prev_prev, y_prev,
                 results, all_results, writes, u_prev, u_curr, u_next, frames>>

SpecRule == InitRule /\ [][ApplyInterfaceRule]_vars

----------------------------------------------------------------------------
(* Properties *)

Interior == 1..(NUM_NODES - 2)

\* the frame series recorded by simulate_single_r and simulate_interface
RecordedSeries == {results} \cup {all_results[k] : k \in 1..Len(all_results)}

\* C1: every recorded frame of every run, the initial frames included, is
\* exactly 0 at node 0 and at the last node.
C1_FixedEnds ==
  /\ \A s \in RecordedSeries : \A k \in 1..Len(s) :
       s[k][0] = 0 /\ s[k][NUM_NODES - 1] = 0
  /\ \A k \in 1..Len(frames) : frames[k][0] = 0 /\ frames[k][N - 1] = 0

\* number of stencil frames a run with num_steps = n records
StencilFrames(n) == IF n > 2 THEN n - 2 ELSE 0

C2_Counts ==
  /\ (prog \in {"single", "interface"} /\ pc = "loop") =>
        /\ Len(results) = step
        /\ step <= 2 + StencilFrames(num_steps)
  /\ (prog = "single" /\ pc = "done") =>
        Len(results) = 2 + StencilFrames(num_steps)
  /\ \A k \in 1..Len(all_results) :
        Len(all_results[k]) = 2 + StencilFrames(num_steps)

C2_OneFramePerStep ==
  (prog \in {"single", "interface"} /\ pc = "loop" /\ pc' = "loop") =>
     /\ step' = step + 1
     /\ results' = Append(results, y_curr')

\* C2 (as amended): after the two initial frames the time loop applies the
\* stepper exactly max(num_steps - 2, 0) times, each application appends
\* exactly one frame, the loop terminates, and a returned series holds
\* 2 + max(num_steps - 2, 0) frames.
C2_StepCount ==
  /\ []C2_Counts
  /\ [][C2_OneFramePerStep]_vars
  /\ <>(pc = "done")

\* C2 as stated: a returned series holds the 2 initial frames followed by
\* num_steps stencil frames.
C2_NumStepsFrames ==
  /\ (prog = "single" /\ pc = "done") => Len(results) = 2 + num_steps
  /\ \A k \in 1..Len(all_results) : Len(all_results[k]) = 2 + num_steps

C2_Witness ==
  /\ prog = "interface" /\ pc = "done"
  /\ num_steps = MaxSteps
  /\ Len(all_results) >= 1
  /\ Len(all_results[1]) = MaxSteps

\* C3: in simulate_single_r every stencil-computed frame equals, at every
\* interior node, the stencil applied to the two frames recorded before it,
\* and between steps y_prev is the last recorded frame and y_prev_prev the
\* one before it.
C3_StencilOnFrames ==
  prog = "single" =>
    /\ \A k \in 3..Len(results) : \A i \in Interior :
         results[k][i] = Stencil(Powi2(r), results[k - 1], results[k - 2], i)
    /\ pc = "loop" =>
         /\ y_prev = results[Len(results)]
         /\ y_prev_prev = results[Len(results) - 1]

C3_Witness ==
  /\ prog = "single" /\ r = 16
  /\ Len(results) >= 5
  /\ results[5] # results[4]
  /\ results[5] # results[3]

ExpectedRule(i) ==
  IF i < INTERFACE_I THEN "r1"
  ELSE IF i > INTERFACE_I THEN "r2" ELSE "interface"

RuleValue(r1, yp, ypp, i) ==
  IF i < INTERFACE_I THEN Stencil(Powi2(r1), yp, ypp, i)
  ELSE IF i > INTERFACE_I THEN Stencil(Powi2(R2Of(r1)), yp, ypp, i)
  ELSE InterfaceRule(Powi2(r1), Powi2(R2Of(r1)), yp, ypp, i)

FramesFollowRules(s, r1) ==
  \A k \in 3..Len(s) : \A i \in Interior :
     s[k][i] = RuleValue(r1, s[k - 1], s[k - 2], i)

\* C4: every step of simulate_interface writes each interior node exactly
\* once, by the r1 stencil left of the interface, the r2 stencil right of
\* it and the interface rule at it, and the value written is that rule
\* applied to the two frames recorded before.
C4_Partition ==
  prog = "interface" =>
    /\ writes # << >> =>
         /\ \A j \in 1..Len(writes) :
              /\ writes[j][1] \in Interior
              /\ writes[j][2] = ExpectedRule(writes[j][1])
         /\ \A i \in Interior :
              Cardinality({j \in 1..Len(writes) : writes[j][1] = i}) = 1
    /\ pc = "loop" => FramesFollowRules(results, r_values[run])
    /\ \A k \in 1..Len(all_results) :
         FramesFollowRules(all_results[k], r_values[k])

C4_Witness ==
  /\ prog = "interface" /\ pc = "loop"
  /\ Len(results) >= 4
  /\ Len(writes) = NUM_NODES - 2
  /\ results[4] # results[3]

\* C5: when the first stencil step is about to be taken, the current and
\* the previous field are 0 at both endpoints.
C5_EndsForcedBeforeFirstStep ==
  (prog \in {"single", "interface"} /\ pc = "loop" /\ Len(results) = 2
     /\ step < num_steps) =>
     /\ y_prev[0] = 0 /\ y_prev[NUM_NODES - 1] = 0
     /\ y_prev_prev[0] = 0 /\ y_prev_prev[NUM_NODES - 1] = 0

\* C6: the first two recorded frames of every run of simulate_single_r and
\* simulate_interface are equal at every node.
C6_FirstTwoFramesEqual ==
  \A s \in RecordedSeries :
     Len(s) >= 2 => \A i \in 0..(NUM_NODES - 1) : s[2][i] = s[1][i]

C6_Witness ==
  /\ prog = "interface" /\ pc = "done"
  /\ Len(all_results) = MaxRuns
  /\ num_steps = MaxSteps
  /\ all_results[MaxRuns][1][10] = 8192

\* the frame series of one run of simulate_interface taken on its own
RECURSIVE SoloExtend(_, _, _, _)
SoloExtend(s, r1, st, n) ==
  IF ~(st < n) THEN s
  ELSE SoloExtend(
         Append(s, InterfaceStepField(Powi2(r1), Powi2(R2Of(r1)),
                                      Zeros(NUM_NODES),
                                      s[Len(s)], s[Len(s) - 1]).y),
         r1, st + 1, n)

SoloRun(r1, n) ==
  SoloExtend(<<FromTable(GaussianInterface), FromTable(GaussianInterface)>>,
             r1, 2, n)

\* C7: simulate_interface returns one series per entry of r_values, in
\* order, and the series at position k is the series a run with
\* r_values[k] and num_steps produces on its own.
C7_RunsIndependent ==
  prog = "interface" =>
    /\ Len(all_results) <= Len(r_values)
    /\ pc = "done" => Len(all_results) = Len(r_values)
    /\ \A k \in 1..Len(all_results) :
         all_results[k] = SoloRun(r_values[k], num_steps)

C7_Witness ==
  /\ prog = "interface" /\ pc = "done"
  /\ Len(all_results) = MaxRuns
  /\ r_values[1] # r_values[MaxRuns]
  /\ num_steps = MaxSteps
  /\ all_results[1] # all_results[MaxRuns]

\* sum of f over lo..hi
RECURSIVE Sum(_, _, _)
Sum(f, lo, hi) ==
  IF lo > hi THEN 0
  ELSE IF lo = hi THEN f[lo]
  ELSE LET mid == (lo + hi) \div 2
       IN  Sum(f, lo, mid) + Sum(f, mid + 1, hi)

\* sum over the nodes of the squared differences of adjacent node values
Energy(f) ==
  Sum([i \in 0..(NUM_NODES - 2) |-> (f[i + 1] - f[i]) * (f[i + 1] - f[i])],
      0, NUM_NODES - 2)

\* C8: in a homogeneous run with Courant number at most 1 the energy of
\* every recorded frame is at most twice the energy of the initial frame.
C8_EnergyBounded ==
  (prog = "single" /\ r <= QR /\ Len(results) >= 1) =>
     Energy(results[Len(results)]) <= 2 * Energy(results[1])

C8_Witness ==
  /\ prog = "single" /\ pc = "done" /\ r = 16
  /\ Len(results) = StabilitySteps
  /\ Energy(results[StabilitySteps]) > 0
  /\ results[StabilitySteps] # results[1]

EndCycle(k, e) ==
  IF (k - 1) % 3 = 0 THEN PacketU0[e]
  ELSE IF (k - 1) % 3 = 1 THEN 0 ELSE PacketUPrev[e]

====
